---- MODULE Spec2Model ----
(***************************************************************************)
(* Cppuccino examples: a model of examples/ownership_and_lifetime.cpp (the *)
(* Lifetime Demo Program) and of examples/const_vs_nonconst.cpp (the       *)
(* Benchmark Program and the two Data member functions it times).          *)
(*                                                                         *)
(* Three specifications share the module:                                  *)
(*   SpecLifetime  main() of ownership_and_lifetime.cpp, statement by      *)
(*                 statement, with every allocation's address chosen by    *)
(*                 the allocator;                                          *)
(*   SpecBench     main() of const_vs_nonconst.cpp, with every clock       *)
(*                 reading chosen by the clock;                            *)
(*   SpecCompute   Data::compute and Data::computeNonConst run side by     *)
(*                 side, one loop iteration at a time.                     *)
(* TLC's integers are 32 bits wide, so every number of the model is kept   *)
(* inside the range of a C++ int and wider values are written in base 10^6.*)
(***************************************************************************)
EXTENDS Integers, Sequences, FiniteSets

VARIABLES
    \* ---- ownership_and_lifetime.cpp
    pc,         \* the statement main() and its callees are about to execute
    paramDtor,  \* who destroys a by-value parameter: "callee" or "caller"
    state,      \* per Resource instance: Uninitialized, Alive or Released
    addr,       \* per Resource instance: its `this` (Null before construction)
    handle,     \* per smart or raw pointer variable: the address it holds
    useCount,   \* the shared_ptr control block's owner count
    out,        \* the lines written to std::cout, in order
    ub,         \* a pointer that refers to no live Resource was dereferenced or deleted
    \* ---- const_vs_nonconst.cpp, main()
    bpc,        \* the statement main() is about to execute
    bi,         \* the loop variable i of the batch being run
    calls,      \* the member function invocations made so far, in order
    clock,      \* the clock readings taken so far, in order
    bout,       \* the lines written to std::cout, in order
    \* ---- const_vs_nonconst.cpp, Data::compute and Data::computeNonConst
    pcConst,     \* compute: "loop" while in the for statement, "done" once returned
    iConst,      \* compute: the loop variable i
    sumConst,    \* compute: the accumulator sum
    retConst,    \* compute: the value returned (0 until it returns)
    ovConst,     \* compute: sum += i overflowed the int
    pcNonConst,  \* computeNonConst: the same five
    iNonConst,
    sumNonConst,
    retNonConst,
    ovNonConst

lifetimeVars == <<pc, paramDtor, state, addr, handle, useCount, out, ub>>
benchVars    == <<bpc, bi, calls, clock, bout>>
computeVars  == <<pcConst, iConst, sumConst, retConst, ovConst,
                  pcNonConst, iNonConst, sumNonConst, retNonConst, ovNonConst>>
vars         == <<lifetimeVars, benchVars, computeVars>>

(***************************************************************************)
(* Bounds of the model.                                                    *)
(***************************************************************************)
\* the allocator hands out one of NumAddrs addresses
NumAddrs == 3
\* a clock reading is one of 0..MaxTick
MaxTick == 2

(***************************************************************************)
(* ownership_and_lifetime.cpp                                              *)
(***************************************************************************)
Null == 0
Addrs == 1..NumAddrs

Names == {"unique_resource", "shared_resource", "observer_resource"}

\* the pointer variables of the program: createUniqueResource's return value,
\* uniqueOwnershipScenario's res, consumeUnique's res; sharedOwnershipScenario's
\* res and another; observerScenario's owner and observeResource's res
UniqueHandles == {"retVal", "callerRes", "paramRes", "owner"}
SharedHandles == {"sharedA", "sharedB"}
RawHandles    == {"observed"}
Handles       == UniqueHandles \cup SharedHandles \cup RawHandles

\* one line of output
Ev(k, n, a, c) == [kind |-> k, name |-> n, addr |-> a, count |-> c]

\* the live Resource a pointer value refers to, if any
Pointees(p) == {n \in Names : state[n] = "Alive" /\ addr[n] = p}
Pointee(p)  == CHOOSE n \in Pointees(p) : TRUE

\* Resource::Resource(std::string name) at address a
Construct(n, a) ==
    /\ state' = [state EXCEPT ![n] = "Alive"]
    /\ addr'  = [addr EXCEPT ![n] = a]
    /\ out'   = Append(out, Ev("acquire", n, a, 0))
    /\ ub'    = ub

\* p->use(): Resource::use() const on *p; undefined when p refers to no live Resource
Use(p) ==
    IF Pointees(p) # {}
    THEN /\ out' = Append(out, Ev("use", Pointee(p), p, 0))
         /\ ub'  = ub
    ELSE /\ out' = out
         /\ ub'  = TRUE

\* delete p: Resource::~Resource() on *p; deleting the null pointer does nothing
Delete(p) ==
    IF p = Null
    THEN UNCHANGED <<state, out, ub>>
    ELSE IF Pointees(p) # {}
    THEN /\ state' = [state EXCEPT ![Pointee(p)] = "Released"]
         /\ out'   = Append(out, Ev("release", Pointee(p), p, 0))
         /\ ub'    = ub
    ELSE /\ UNCHANGED <<state, out>>
         /\ ub' = TRUE

\* std::cout << ... with nothing else happening
Cout(e) ==
    /\ out' = Append(out, e)
    /\ UNCHANGED <<state, addr, handle, useCount, ub>>

InitLifetime ==
    /\ pc = "m88"
    /\ paramDtor \in {"callee", "caller"}
    /\ state = [n \in Names |-> "Uninitialized"]
    /\ addr = [n \in Names |-> Null]
    /\ handle = [h \in Handles |-> Null]
    /\ useCount = 0
    /\ out = <<>>
    /\ ub = FALSE

\* the addresses the allocator can return: those no live Resource occupies
FreeAddrs == Addrs \ {addr[n] : n \in {m \in Names : state[m] = "Alive"}}

\* a move that leaves the source pointing at the resource
UniquePtrAlias(h, from, to) == [h EXCEPT ![to] = h[from]]

\* std::unique_ptr's move constructor: `to` takes what `from` held, `from` becomes empty
UniquePtrMove(h, from, to) == [h EXCEPT ![to] = h[from], ![from] = Null]

\* a unique_ptr that gives its pointer up without deleting it (release() for reset())
UniquePtrLeak(h) ==
    /\ handle' = [handle EXCEPT ![h] = Null]
    /\ UNCHANGED <<state, out, ub, addr, useCount>>

\* std::unique_ptr's destructor: deletes what it holds, if anything
UniquePtrDestroy(h) ==
    /\ Delete(handle[h])
    /\ handle' = [handle EXCEPT ![h] = Null]
    /\ UNCHANGED <<addr, useCount>>

\* a copy that shares the pointer without counting the new owner
SharedPtrCopyUncounted(from, to) ==
    /\ handle' = [handle EXCEPT ![to] = handle[from]]
    /\ useCount' = useCount

\* std::shared_ptr's copy constructor: one more owner of the same Resource
SharedPtrCopy(from, to) ==
    /\ handle' = [handle EXCEPT ![to] = handle[from]]
    /\ useCount' = IF handle[from] = Null THEN useCount ELSE useCount + 1

\* a shared_ptr destructor that drops its count but never deletes
SharedPtrDestroyLeak(h) ==
    /\ useCount' = IF handle[h] = Null THEN useCount ELSE useCount - 1
    /\ handle' = [handle EXCEPT ![h] = Null]
    /\ UNCHANGED <<state, out, ub, addr>>

\* std::shared_ptr's destructor: one owner fewer; the last one deletes the Resource
SharedPtrDestroy(h) ==
    /\ IF handle[h] = Null
       THEN UNCHANGED <<state, out, ub, useCount>>
       ELSE /\ useCount' = useCount - 1
            /\ IF useCount - 1 = 0
               THEN Delete(handle[h])
               ELSE UNCHANGED <<state, out, ub>>
    /\ handle' = [handle EXCEPT ![h] = Null]
    /\ UNCHANGED addr

\* ---- main, line 88
MainHeaderUnique ==
    /\ pc = "m88"
    /\ Cout(Ev("header", "Unique Ownership", Null, 0))
    /\ pc' = "u40"
    /\ UNCHANGED paramDtor
    /\ UNCHANGED <<benchVars, computeVars>>

\* ---- uniqueOwnershipScenario, line 40: the call of createUniqueResource
CreateUniqueResource ==
    /\ pc = "u40"
    /\ \E a \in FreeAddrs :
          /\ Construct("unique_resource", a)
          /\ handle' = [handle EXCEPT !["retVal"] = a]
    /\ pc' = "u40ret"
    /\ UNCHANGED <<paramDtor, useCount>>
    /\ UNCHANGED <<benchVars, computeVars>>

\* line 40: res is initialised from the value createUniqueResource returns
InitCallerRes ==
    /\ pc = "u40ret"
    /\ handle' = UniquePtrMove(handle, "retVal", "callerRes")
    /\ pc' = "u42"
    /\ UNCHANGED <<paramDtor, state, addr, useCount, out, ub>>
    /\ UNCHANGED <<benchVars, computeVars>>

\* line 42
CallerPrintOwns ==
    /\ pc = "u42"
    /\ Cout(Ev("caller_owns", "", handle["callerRes"], 0))
    /\ pc' = "u44"
    /\ UNCHANGED paramDtor
    /\ UNCHANGED <<benchVars, computeVars>>

\* line 44: consumeUnique(std::move(res)), the parameter is move-constructed
CallConsumeUnique ==
    /\ pc = "u44"
    /\ handle' = UniquePtrMove(handle, "callerRes", "paramRes")
    /\ pc' = "c34"
    /\ UNCHANGED <<paramDtor, state, addr, useCount, out, ub>>
    /\ UNCHANGED <<benchVars, computeVars>>

\* ---- consumeUnique, line 34
ConsumePrintOwns ==
    /\ pc = "c34"
    /\ Cout(Ev("consume_owns", "", handle["paramRes"], 0))
    /\ pc' = "c36"
    /\ UNCHANGED paramDtor
    /\ UNCHANGED <<benchVars, computeVars>>

\* line 36
ConsumeUse ==
    /\ pc = "c36"
    /\ Use(handle["paramRes"])
    /\ pc' = "c37"
    /\ UNCHANGED <<paramDtor, state, addr, handle, useCount>>
    /\ UNCHANGED <<benchVars, computeVars>>

\* consumeUnique taking its argument by reference: on return the caller's res
\* still owns the resource
ConsumeReturnByReference ==
    /\ pc = "c37"
    /\ handle' = UniquePtrMove(handle, "paramRes", "callerRes")
    /\ pc' = "u45"
    /\ UNCHANGED <<paramDtor, state, addr, useCount, out, ub>>
    /\ UNCHANGED <<benchVars, computeVars>>

\* line 37: consumeUnique returns. The parameter's lifetime ends here when the
\* callee destroys it, or at the end of the call's full-expression when the
\* caller does (which of the two is implementation-defined)
ConsumeReturn ==
    /\ pc = "c37"
    /\ IF paramDtor = "callee"
       THEN /\ UniquePtrDestroy("paramRes")
            /\ pc' = "u45"
       ELSE /\ pc' = "u44end"
            /\ UNCHANGED <<state, addr, handle, useCount, out, ub>>
    /\ UNCHANGED paramDtor
    /\ UNCHANGED <<benchVars, computeVars>>

\* ---- uniqueOwnershipScenario, line 44: the end of the full-expression
CallerDestroyParam ==
    /\ pc = "u44end"
    /\ UniquePtrDestroy("paramRes")
    /\ pc' = "u45"
    /\ UNCHANGED paramDtor
    /\ UNCHANGED <<benchVars, computeVars>>

\* lines 45-47
CallerCheckEmpty ==
    /\ pc = "u45"
    /\ IF handle["callerRes"] = Null
       THEN Cout(Ev("caller_empty", "", Null, 0))
       ELSE UNCHANGED <<state, addr, handle, useCount, out, ub>>
    /\ pc' = "u48"
    /\ UNCHANGED paramDtor
    /\ UNCHANGED <<benchVars, computeVars>>

\* line 48: res goes out of scope
UniqueScenarioEnd ==
    /\ pc = "u48"
    /\ UniquePtrDestroy("callerRes")
    /\ pc' = "m91"
    /\ UNCHANGED paramDtor
    /\ UNCHANGED <<benchVars, computeVars>>

\* ---- main, line 91
MainHeaderShared ==
    /\ pc = "m91"
    /\ Cout(Ev("header", "Shared Ownership", Null, 0))
    /\ pc' = "s51"
    /\ UNCHANGED paramDtor
    /\ UNCHANGED <<benchVars, computeVars>>

\* ---- sharedOwnershipScenario, line 51
MakeShared ==
    /\ pc = "s51"
    /\ \E a \in FreeAddrs :
          /\ Construct("shared_resource", a)
          /\ handle' = [handle EXCEPT !["sharedA"] = a]
    /\ useCount' = 1
    /\ pc' = "s53"
    /\ UNCHANGED paramDtor
    /\ UNCHANGED <<benchVars, computeVars>>

\* lines 53-56
OwnerAPrint ==
    /\ pc = "s53"
    /\ Cout(Ev("owner_a", "", handle["sharedA"], useCount))
    /\ pc' = "s59"
    /\ UNCHANGED paramDtor
    /\ UNCHANGED <<benchVars, computeVars>>

\* line 59: auto another = res
CopyShared ==
    /\ pc = "s59"
    /\ SharedPtrCopy("sharedA", "sharedB")
    /\ pc' = "s60"
    /\ UNCHANGED <<paramDtor, state, addr, out, ub>>
    /\ UNCHANGED <<benchVars, computeVars>>

\* lines 60-63
OwnerBPrint ==
    /\ pc = "s60"
    /\ Cout(Ev("owner_b", "", handle["sharedB"], useCount))
    /\ pc' = "s65"
    /\ UNCHANGED paramDtor
    /\ UNCHANGED <<benchVars, computeVars>>

\* line 65
OwnerBUse ==
    /\ pc = "s65"
    /\ Use(handle["sharedB"])
    /\ pc' = "s66"
    /\ UNCHANGED <<paramDtor, state, addr, handle, useCount>>
    /\ UNCHANGED <<benchVars, computeVars>>

\* line 66: another goes out of scope
InnerScopeExit ==
    /\ pc = "s66"
    /\ SharedPtrDestroy("sharedB")
    /\ pc' = "s68"
    /\ UNCHANGED paramDtor
    /\ UNCHANGED <<benchVars, computeVars>>

\* line 68
OwnerAPrintAfter ==
    /\ pc = "s68"
    /\ Cout(Ev("owner_a_after", "", Null, useCount))
    /\ pc' = "s69"
    /\ UNCHANGED paramDtor
    /\ UNCHANGED <<benchVars, computeVars>>

\* line 69
OwnerAUse ==
    /\ pc = "s69"
    /\ Use(handle["sharedA"])
    /\ pc' = "s70"
    /\ UNCHANGED <<paramDtor, state, addr, handle, useCount>>
    /\ UNCHANGED <<benchVars, computeVars>>

\* line 70: res goes out of scope
SharedScenarioEnd ==
    /\ pc = "s70"
    /\ SharedPtrDestroy("sharedA")
    /\ pc' = "m94"
    /\ UNCHANGED paramDtor
    /\ UNCHANGED <<benchVars, computeVars>>

\* ---- main, line 94
MainHeaderObserver ==
    /\ pc = "m94"
    /\ Cout(Ev("header", "Observer Ownership", Null, 0))
    /\ pc' = "o81"
    /\ UNCHANGED paramDtor
    /\ UNCHANGED <<benchVars, computeVars>>

\* ---- observerScenario, line 81
MakeObserverResource ==
    /\ pc = "o81"
    /\ \E a \in FreeAddrs :
          /\ Construct("observer_resource", a)
          /\ handle' = [handle EXCEPT !["owner"] = a]
    /\ pc' = "o82"
    /\ UNCHANGED <<paramDtor, useCount>>
    /\ UNCHANGED <<benchVars, computeVars>>

\* line 82
OwnerPrint ==
    /\ pc = "o82"
    /\ Cout(Ev("owner", "", handle["owner"], 0))
    /\ pc' = "o84"
    /\ UNCHANGED paramDtor
    /\ UNCHANGED <<benchVars, computeVars>>

\* line 84: observeResource(owner.get()), the parameter is a copy of the raw pointer
CallObserveResource ==
    /\ pc = "o84"
    /\ handle' = [handle EXCEPT !["observed"] = handle["owner"]]
    /\ pc' = "b73"
    /\ UNCHANGED <<paramDtor, state, addr, useCount, out, ub>>
    /\ UNCHANGED <<benchVars, computeVars>>

\* ---- observeResource, line 73
ObserverPrint ==
    /\ pc = "b73"
    /\ Cout(Ev("observer_sees", "", handle["observed"], 0))
    /\ pc' = "b75"
    /\ UNCHANGED paramDtor
    /\ UNCHANGED <<benchVars, computeVars>>

\* lines 75-77 with the test inverted: if (!res)
ObserverUseInverted ==
    /\ pc = "b75"
    /\ IF handle["observed"] = Null
       THEN Use(handle["observed"])
       ELSE UNCHANGED <<out, ub>>
    /\ pc' = "b78"
    /\ UNCHANGED <<paramDtor, state, addr, handle, useCount>>
    /\ UNCHANGED <<benchVars, computeVars>>

\* lines 75-77
ObserverUse ==
    /\ pc = "b75"
    /\ IF handle["observed"] # Null
       THEN Use(handle["observed"])
       ELSE UNCHANGED <<out, ub>>
    /\ pc' = "b78"
    /\ UNCHANGED <<paramDtor, state, addr, handle, useCount>>
    /\ UNCHANGED <<benchVars, computeVars>>

\* an observer that deletes what it was shown before returning
ObserveReturnDeleting ==
    /\ pc = "b78"
    /\ Delete(handle["observed"])
    /\ handle' = [handle EXCEPT !["observed"] = Null]
    /\ pc' = "o85"
    /\ UNCHANGED <<paramDtor, addr, useCount>>
    /\ UNCHANGED <<benchVars, computeVars>>

\* line 78: observeResource returns, its raw pointer parameter is gone
ObserveReturn ==
    /\ pc = "b78"
    /\ handle' = [handle EXCEPT !["observed"] = Null]
    /\ pc' = "o85"
    /\ UNCHANGED <<paramDtor, state, addr, useCount, out, ub>>
    /\ UNCHANGED <<benchVars, computeVars>>

\* ---- observerScenario, line 85: owner goes out of scope
ObserverScenarioEnd ==
    /\ pc = "o85"
    /\ UniquePtrDestroy("owner")
    /\ pc' = "m97"
    /\ UNCHANGED paramDtor
    /\ UNCHANGED <<benchVars, computeVars>>

\* ---- main, line 97
MainHeaderEnd ==
    /\ pc = "m97"
    /\ Cout(Ev("header", "End of Program", Null, 0))
    /\ pc' = "m98"
    /\ UNCHANGED paramDtor
    /\ UNCHANGED <<benchVars, computeVars>>

\* line 98
MainReturn ==
    /\ pc = "m98"
    /\ pc' = "done"
    /\ UNCHANGED <<paramDtor, state, addr, handle, useCount, out, ub>>
    /\ UNCHANGED <<benchVars, computeVars>>

NextLifetime ==
    \/ MainHeaderUnique \/ CreateUniqueResource \/ InitCallerRes \/ CallerPrintOwns
    \/ CallConsumeUnique \/ ConsumePrintOwns \/ ConsumeUse \/ ConsumeReturn
    \/ CallerDestroyParam \/ CallerCheckEmpty \/ UniqueScenarioEnd
    \/ MainHeaderShared \/ MakeShared \/ OwnerAPrint \/ CopyShared \/ OwnerBPrint
    \/ OwnerBUse \/ InnerScopeExit \/ OwnerAPrintAfter \/ OwnerAUse \/ SharedScenarioEnd
    \/ MainHeaderObserver \/ MakeObserverResource \/ OwnerPrint \/ CallObserveResource
    \/ ObserverPrint \/ ObserverUse \/ ObserveReturn \/ ObserverScenarioEnd
    \/ MainHeaderEnd \/ MainReturn

\* the program is not running
IdleLifetime ==
    /\ pc = "off"
    /\ paramDtor = "callee"
    /\ state = [n \in Names |-> "Uninitialized"]
    /\ addr = [n \in Names |-> Null]
    /\ handle = [h \in Handles |-> Null]
    /\ useCount = 0
    /\ out = <<>>
    /\ ub = FALSE

(***************************************************************************)
(* const_vs_nonconst.cpp: main                                             *)
(***************************************************************************)
\* line 31: the first batch's loop bound
ConstBatchSize == 100
\* line 37: the second batch's loop bound
NonConstBatchSize == 100

Ticks == 0..MaxTick

\* std::chrono::high_resolution_clock::now(): whatever the clock shows (the
\* clock need not be steady). clock keeps the readings in the order taken:
\* startConst, endConst, startNonConst, endNonConst
Now == \E t \in Ticks : clock' = Append(clock, t)

\* the readings taken so far
StartConstRead    == Len(clock) >= 1
EndConstRead      == Len(clock) >= 2
StartNonConstRead == Len(clock) >= 3
EndNonConstRead   == Len(clock) >= 4

\* lines 42 and 43: end - start, as printed (kept in clock ticks here)
ConstDuration    == clock[2] - clock[1]
NonConstDuration == clock[4] - clock[3]

InitBench ==
    /\ bpc = "main30"
    /\ bi = 0
    /\ calls = <<>>
    /\ clock = <<>>
    /\ bout = <<>>

IdleBench ==
    /\ bpc = "off"
    /\ bi = 0
    /\ calls = <<>>
    /\ clock = <<>>
    /\ bout = <<>>

\* line 30
ReadStartConst ==
    /\ bpc = "main30"
    /\ Now
    /\ bpc' = "main31init"
    /\ UNCHANGED <<bi, calls, bout>>
    /\ UNCHANGED <<lifetimeVars, computeVars>>

\* line 31: int i = 0
ConstBatchInit ==
    /\ bpc = "main31init"
    /\ bi' = 0
    /\ bpc' = "main31"
    /\ UNCHANGED <<calls, clock, bout>>
    /\ UNCHANGED <<lifetimeVars, computeVars>>

\* lines 31-33: i < 100, data.compute(), ++i. The value compute() returns is
\* discarded and Data has no member for it to change
ConstBatchCall ==
    /\ bpc = "main31"
    /\ bi < ConstBatchSize
    /\ calls' = Append(calls, "compute")
    /\ bi' = bi + 1
    /\ UNCHANGED <<bpc, clock, bout>>
    /\ UNCHANGED <<lifetimeVars, computeVars>>

\* line 31: i < 100 is false
ConstBatchExit ==
    /\ bpc = "main31"
    /\ ~(bi < ConstBatchSize)
    /\ bpc' = "main34"
    /\ UNCHANGED <<bi, calls, clock, bout>>
    /\ UNCHANGED <<lifetimeVars, computeVars>>

\* line 34
ReadEndConst ==
    /\ bpc = "main34"
    /\ Now
    /\ bpc' = "main36"
    /\ UNCHANGED <<bi, calls, bout>>
    /\ UNCHANGED <<lifetimeVars, computeVars>>

\* line 36
ReadStartNonConst ==
    /\ bpc = "main36"
    /\ Now
    /\ bpc' = "main37init"
    /\ UNCHANGED <<bi, calls, bout>>
    /\ UNCHANGED <<lifetimeVars, computeVars>>

\* line 37: int i = 0
NonConstBatchInit ==
    /\ bpc = "main37init"
    /\ bi' = 0
    /\ bpc' = "main37"
    /\ UNCHANGED <<calls, clock, bout>>
    /\ UNCHANGED <<lifetimeVars, computeVars>>

\* the second batch with an inclusive bound: i <= 100
NonConstBatchCallInclusive ==
    /\ bpc = "main37"
    /\ bi <= NonConstBatchSize
    /\ calls' = Append(calls, "computeNonConst")
    /\ bi' = bi + 1
    /\ UNCHANGED <<bpc, clock, bout>>
    /\ UNCHANGED <<lifetimeVars, computeVars>>

\* lines 37-39: i < 100, data.computeNonConst(), ++i
NonConstBatchCall ==
    /\ bpc = "main37"
    /\ bi < NonConstBatchSize
    /\ calls' = Append(calls, "computeNonConst")
    /\ bi' = bi + 1
    /\ UNCHANGED <<bpc, clock, bout>>
    /\ UNCHANGED <<lifetimeVars, computeVars>>

\* line 37: i < 100 is false
NonConstBatchExit ==
    /\ bpc = "main37"
    /\ ~(bi < NonConstBatchSize)
    /\ bpc' = "main40"
    /\ UNCHANGED <<bi, calls, clock, bout>>
    /\ UNCHANGED <<lifetimeVars, computeVars>>

\* line 40
ReadEndNonConst ==
    /\ bpc = "main40"
    /\ Now
    /\ bpc' = "main44"
    /\ UNCHANGED <<bi, calls, bout>>
    /\ UNCHANGED <<lifetimeVars, computeVars>>

\* lines 42 and 44
PrintConstDuration ==
    /\ bpc = "main44"
    /\ bout' = Append(bout, [label |-> "Const method duration",
                             ticks |-> ConstDuration])
    /\ bpc' = "main45"
    /\ UNCHANGED <<bi, calls, clock>>
    /\ UNCHANGED <<lifetimeVars, computeVars>>

\* lines 43 and 45
PrintNonConstDuration ==
    /\ bpc = "main45"
    /\ bout' = Append(bout, [label |-> "Non-const method duration",
                             ticks |-> NonConstDuration])
    /\ bpc' = "main46"
    /\ UNCHANGED <<bi, calls, clock>>
    /\ UNCHANGED <<lifetimeVars, computeVars>>

\* line 46: main returns
BenchReturn ==
    /\ bpc = "main46"
    /\ bpc' = "done"
    /\ UNCHANGED <<bi, calls, clock, bout>>
    /\ UNCHANGED <<lifetimeVars, computeVars>>

NextBench ==
    \/ ReadStartConst \/ ConstBatchInit \/ ConstBatchCall \/ ConstBatchExit
    \/ ReadEndConst \/ ReadStartNonConst \/ NonConstBatchInit \/ NonConstBatchCall
    \/ NonConstBatchExit \/ ReadEndNonConst \/ PrintConstDuration
    \/ PrintNonConstDuration \/ BenchReturn

(***************************************************************************)
(* const_vs_nonconst.cpp: Data::compute and Data::computeNonConst          *)
(***************************************************************************)
\* the range of int (32 bits in the build the file documents, line 26)
INT_MAX == 2147483647
INT_MIN == -INT_MAX - 1

\* a + b leaves the range of int
AddOverflows(a, b) ==
    \/ b >= 0 /\ a > INT_MAX - b
    \/ b < 0 /\ a < INT_MIN - b

\* a + b as the build of line 26 (g++, no options) computes it: in 32-bit
\* two's complement, the sum reduced modulo 2^32 into INT_MIN..INT_MAX (worked
\* out here without leaving that range). An int addition that overflows is
\* undefined in C++; ovConst and ovNonConst record that it happened
AddInt32(a, b) ==
    IF b >= 0 /\ a > INT_MAX - b THEN (a - INT_MAX) + (b - INT_MAX) - 2
    ELSE IF b < 0 /\ a < INT_MIN - b THEN (a - INT_MIN) + (b - INT_MIN)
    ELSE a + b

\* compute, line 11: the loop bound
ComputeBound == 1000000
\* compute, line 12: sum += i
ComputeBody(sum, i) == AddInt32(sum, i)

\* computeNonConst, line 19: the loop bound
ComputeNonConstBound == 1000000
\* a loop body that adds one too much: sum += i + 1
ComputeNonConstBodyOffByOne(sum, i) == AddInt32(sum, i + 1)

\* computeNonConst, line 20: sum += i
ComputeNonConstBody(sum, i) == AddInt32(sum, i)

\* the steps each function has taken (an iteration each, and the return)
StepsConst    == iConst + (IF pcConst = "done" THEN 1 ELSE 0)
StepsNonConst == iNonConst + (IF pcNonConst = "done" THEN 1 ELSE 0)

\* lines 10 and 18: int sum = 0, and int i = 0 of lines 11 and 19
InitCompute ==
    /\ pcConst = "loop" /\ iConst = 0 /\ sumConst = 0
    /\ retConst = 0 /\ ovConst = FALSE
    /\ pcNonConst = "loop" /\ iNonConst = 0 /\ sumNonConst = 0
    /\ retNonConst = 0 /\ ovNonConst = FALSE

IdleCompute ==
    /\ pcConst = "off" /\ iConst = 0 /\ sumConst = 0
    /\ retConst = 0 /\ ovConst = FALSE
    /\ pcNonConst = "off" /\ iNonConst = 0 /\ sumNonConst = 0
    /\ retNonConst = 0 /\ ovNonConst = FALSE

constVars    == <<pcConst, iConst, sumConst, retConst, ovConst>>
nonConstVars == <<pcNonConst, iNonConst, sumNonConst, retNonConst, ovNonConst>>

\* compute, lines 11-13: i < 1000000, sum += i, ++i
ComputeIterate ==
    /\ pcConst = "loop"
    /\ StepsConst = StepsNonConst
    /\ iConst < ComputeBound
    /\ sumConst' = ComputeBody(sumConst, iConst)
    /\ ovConst' = (ovConst \/ AddOverflows(sumConst, iConst))
    /\ iConst' = iConst + 1
    /\ UNCHANGED <<pcConst, retConst, nonConstVars>>
    /\ UNCHANGED <<lifetimeVars, benchVars>>

\* compute, lines 11 and 14: i < 1000000 is false, return sum
ComputeReturn ==
    /\ pcConst = "loop"
    /\ StepsConst = StepsNonConst
    /\ ~(iConst < ComputeBound)
    /\ retConst' = sumConst
    /\ pcConst' = "done"
    /\ UNCHANGED <<iConst, sumConst, ovConst, nonConstVars>>
    /\ UNCHANGED <<lifetimeVars, benchVars>>

\* computeNonConst, lines 19-21
ComputeNonConstIterate ==
    /\ pcNonConst = "loop"
    /\ StepsNonConst < StepsConst
    /\ iNonConst < ComputeNonConstBound
    /\ sumNonConst' = ComputeNonConstBody(sumNonConst, iNonConst)
    /\ ovNonConst' = (ovNonConst \/ AddOverflows(sumNonConst, iNonConst))
    /\ iNonConst' = iNonConst + 1
    /\ UNCHANGED <<pcNonConst, retNonConst, constVars>>
    /\ UNCHANGED <<lifetimeVars, benchVars>>

\* computeNonConst, lines 19 and 22
ComputeNonConstReturn ==
    /\ pcNonConst = "loop"
    /\ StepsNonConst < StepsConst
    /\ ~(iNonConst < ComputeNonConstBound)
    /\ retNonConst' = sumNonConst
    /\ pcNonConst' = "done"
    /\ UNCHANGED <<iNonConst, sumNonConst, ovNonConst, constVars>>
    /\ UNCHANGED <<lifetimeVars, benchVars>>

NextCompute ==
    \/ ComputeIterate \/ ComputeReturn
    \/ ComputeNonConstIterate \/ ComputeNonConstReturn

(***************************************************************************)
(* The specifications.                                                     *)
(***************************************************************************)

\* each program starts alone, the other two not running
StartLifetime == InitLifetime /\ IdleBench /\ IdleCompute
StartBench    == IdleLifetime /\ InitBench /\ IdleCompute
StartCompute  == IdleLifetime /\ IdleBench /\ InitCompute

\* a running program takes its next step (single-threaded, nothing to wait for)
SpecLifetime == StartLifetime /\ [][NextLifetime]_vars /\ WF_vars(NextLifetime)

SpecBench == StartBench /\ [][NextBench]_vars /\ WF_vars(NextBench)

SpecCompute == StartCompute /\ [][NextCompute]_vars

(***************************************************************************)
(* Properties of the Lifetime Demo Program (checked under SpecLifetime).   *)
(***************************************************************************)
\* the program points of ownership_and_lifetime.cpp in execution order
PcOrder ==
    << "m88", "u40", "u40ret", "u42", "u44", "c34", "c36", "c37", "u44end",
       "u45", "u48", "m91", "s51", "s53", "s59", "s60", "s65", "s66", "s68",
       "s69", "s70", "m94", "o81", "o82", "o84", "b73", "b75", "b78", "o85",
       "m97", "m98", "done" >>
Pos(l) == CHOOSE k \in 1..Len(PcOrder) : PcOrder[k] = l
\* control has passed program point l
Past(l) == Pos(pc) > Pos(l)

\* the positions of the output lines of one kind about one resource
Lines(k, n) == {j \in 1..Len(out) : out[j].kind = k /\ out[j].name = n}
\* the positions of the output lines of one kind
KindLines(k) == {j \in 1..Len(out) : out[j].kind = k}
Printed(k) == KindLines(k) # {}
HeaderPrinted(t) == Lines("header", t) # {}

IsPrefix(p, q) == Len(p) <= Len(q) /\ \A j \in 1..Len(p) : p[j] = q[j]

\* the resource traces: acquire, use and release lines and the owner counts
CountKinds == {"owner_a", "owner_b", "owner_a_after"}
IsTrace(e) == e.kind \in {"acquire", "use", "release"} \cup CountKinds
Shape(e) == IF e.kind \in CountKinds THEN <<"count", e.count>> ELSE <<e.kind, e.name>>
TraceLines == SelectSeq(out, IsTrace)
TraceShapes == [j \in 1..Len(TraceLines) |-> Shape(TraceLines[j])]

ExpectedTraces ==
    << <<"acquire", "unique_resource">>, <<"use", "unique_resource">>,
       <<"release", "unique_resource">>,
       <<"acquire", "shared_resource">>, <<"count", 1>>, <<"count", 2>>,
       <<"use", "shared_resource">>, <<"count", 1>>, <<"use", "shared_resource">>,
       <<"release", "shared_resource">>,
       <<"acquire", "observer_resource">>, <<"use", "observer_resource">>,
       <<"release", "observer_resource">> >>

\* C1: a run prints its resource traces in exactly the order acquire(unique),
\* use, release(unique), acquire(shared), count 1, count 2, use, count 1, use,
\* release(shared), acquire(observer), use, release(observer): what is printed
\* so far is always a prefix of that list, the finished run has printed all of
\* it, the unique resource's use line directly follows consumeUnique's own
\* line and the observer resource's use line directly follows observeResource's.
C1_TraceOrder ==
    /\ IsPrefix(TraceShapes, ExpectedTraces)
    /\ pc = "done" => TraceShapes = ExpectedTraces
    /\ \A j \in Lines("use", "unique_resource") :
          j > 1 /\ out[j - 1].kind = "consume_owns"
    /\ \A j \in Lines("use", "observer_resource") :
          j > 1 /\ out[j - 1].kind = "observer_sees"

C1_Witness == pc = "done" /\ Len(TraceLines) = 13 /\ ~ub

\* C2 (state part): per resource, the acquire line is printed exactly once
\* when it is constructed and the release line exactly once when it is
\* destroyed, every use line lies strictly between the two, no pointer to a
\* dead resource is ever used or deleted, and the finished run has released
\* every resource.
C2_Inv ==
    /\ ~ub
    /\ \A n \in Names :
          /\ state[n] \in {"Uninitialized", "Alive", "Released"}
          /\ Cardinality(Lines("acquire", n)) = (IF state[n] = "Uninitialized" THEN 0 ELSE 1)
          /\ Cardinality(Lines("release", n)) = (IF state[n] = "Released" THEN 1 ELSE 0)
          /\ \A u \in Lines("use", n) :
                /\ \E a \in Lines("acquire", n) : a < u
                /\ \A r \in Lines("release", n) : u < r
          /\ pc = "done" => state[n] = "Released"

\* C2 (step part): a resource only goes Uninitialized -> Alive -> Released,
\* and Released is terminal.
C2_Step ==
    \A n \in Names :
       \/ state'[n] = state[n]
       \/ state[n] = "Uninitialized" /\ state'[n] = "Alive"
       \/ state[n] = "Alive" /\ state'[n] = "Released"

\* C2: each Resource goes Uninitialized -> Alive -> Released (terminal), with
\* exactly one acquire line, exactly one release line, and every use while Alive.
C2_Lifecycle == []C2_Inv /\ [][C2_Step]_vars

C2_Witness ==
    /\ pc = "done"
    /\ \A n \in Names :
          /\ state[n] = "Released"
          /\ Lines("use", n) # {}

\* the handles of the exclusive ownership scenario that hold the resource
UniqueOwners == {h \in {"retVal", "callerRes", "paramRes"} : handle[h] # Null}

\* C3: at most one of the factory's return value, the caller's res and
\* consumeUnique's res owns unique_resource; once ownership has moved into
\* consumeUnique the caller's res is empty for good, so the caller prints
\* "unique_ptr is now empty" in every run.
C3_ExclusiveOwner ==
    /\ Cardinality(UniqueOwners) <= 1
    /\ \A h \in UniqueOwners : state["unique_resource"] = "Alive"
                               /\ handle[h] = addr["unique_resource"]
    /\ Past("u44") => handle["callerRes"] = Null
    /\ Past("u45") => Cardinality(KindLines("caller_empty")) = 1
    /\ ~Past("u45") => ~Printed("caller_empty")

C3_Witness ==
    /\ pc = "u48"
    /\ Printed("caller_empty")
    /\ handle["callerRes"] = Null
    /\ Lines("use", "unique_resource") # {}

\* the exclusive ownership scenario's counts, orders and release point, less
\* the place where control is when the release happens (C4)
C4_Common ==
    /\ pc = "m91" =>
          /\ Cardinality(KindLines("acquire")) = 1
          /\ Cardinality(KindLines("release")) = 1
          /\ Lines("acquire", "unique_resource") # {}
          /\ Lines("release", "unique_resource") # {}
    /\ \A r \in Lines("release", "unique_resource") :
          /\ r > 2
          /\ out[r - 1].kind = "use" /\ out[r - 1].name = "unique_resource"
          /\ out[r - 2].kind = "consume_owns"
          /\ \A e \in KindLines("caller_empty") : r < e
    /\ pc = "u48" => state["unique_resource"] = "Released"

\* C4 as claimed: one acquire and one release line for the scenario, the
\* release after consumeUnique's use line and before control is back in
\* uniqueOwnershipScenario (so wherever the caller has control after the call,
\* the resource is already Released).
C4_ReleaseBeforeReturn ==
    /\ C4_Common
    /\ Past("c37") => state["unique_resource"] = "Released"

\* C4 as amended: one acquire and one release line for the scenario, the
\* release after consumeUnique's use line and no later than the end of the
\* call statement of line 44 (when consumeUnique returns, or when the caller
\* destroys the parameter at the end of the call's full-expression), hence
\* before the caller's test of line 45 and its "unique_ptr is now empty" line,
\* and not at the end of uniqueOwnershipScenario; until consumeUnique returns
\* the resource is Alive.
C4_ReleaseByEndOfCall ==
    /\ C4_Common
    /\ Past("u44end") => state["unique_resource"] = "Released"
    /\ Past("u40") /\ ~Past("c37") => state["unique_resource"] = "Alive"

C4_Witness ==
    /\ pc = "u45"
    /\ paramDtor = "caller"
    /\ state["unique_resource"] = "Released"
    /\ Lines("use", "unique_resource") # {}

\* the owner-count lines printed so far: who printed and the count shown
CountLines == SelectSeq(out, LAMBDA e : e.kind \in CountKinds)
CountShown == [j \in 1..Len(CountLines) |-> <<CountLines[j].kind, CountLines[j].count>>]

\* C5: the owner count shown goes 1 (Owner A), 2 (Owner B), 1 (Owner A after
\* the nested scope); shared_resource is Alive whenever its owner count is
\* above 0; leaving the nested scope prints no release line; the release line
\* is printed only once Owner A's res has gone out of scope, with the count 0.
C5_SharedCount ==
    /\ IsPrefix(CountShown, << <<"owner_a", 1>>, <<"owner_b", 2>>, <<"owner_a_after", 1>> >>)
    /\ Past("s68") => Len(CountShown) = 3
    /\ useCount > 0 => state["shared_resource"] = "Alive"
    /\ useCount = Cardinality({h \in SharedHandles : handle[h] # Null})
    /\ pc = "s68" => /\ useCount = 1
                     /\ Lines("release", "shared_resource") = {}
                     /\ state["shared_resource"] = "Alive"
    /\ Lines("release", "shared_resource") # {} => Past("s70") /\ useCount = 0
    /\ Past("s70") => state["shared_resource"] = "Released"

C5_Witness ==
    /\ pc = "s68"
    /\ useCount = 1
    /\ handle["sharedB"] = Null
    /\ state["shared_resource"] = "Alive"
    /\ Len(CountShown) = 2

\* control is inside observeResource
InObserveResource == pc \in {"b73", "b75", "b78"}

\* C6 (state part): the address observeResource prints is the one the owner
\* printed; while observeResource runs and when it has returned, owner still
\* holds observer_resource, which is Alive with no release line printed; the
\* one release line is printed when observerScenario's owner goes out of scope.
C6_Inv ==
    /\ \A o \in KindLines("owner") : \A b \in KindLines("observer_sees") :
          out[b].addr = out[o].addr /\ out[o].addr # Null
    /\ InObserveResource \/ pc = "o85" =>
          /\ handle["owner"] # Null
          /\ handle["owner"] = addr["observer_resource"]
          /\ state["observer_resource"] = "Alive"
          /\ Lines("release", "observer_resource") = {}
    /\ Lines("release", "observer_resource") # {} => Past("o85")
    /\ Past("o85") => Cardinality(Lines("release", "observer_resource")) = 1

\* C6 (step part): no step of observeResource changes a resource's state or
\* address, an owning handle or the shared owner count.
C6_Step ==
    InObserveResource =>
       /\ state' = state /\ addr' = addr /\ useCount' = useCount
       /\ \A h \in UniqueHandles \cup SharedHandles : handle'[h] = handle[h]

\* C6: observeResource changes nothing about ownership or lifecycle; the
\* release of observer_resource is caused only by observerScenario ending.
C6_ObserverFrame == []C6_Inv /\ [][C6_Step]_vars

C6_Witness ==
    /\ pc = "o85"
    /\ Lines("use", "observer_resource") # {}
    /\ Printed("observer_sees")
    /\ state["observer_resource"] = "Alive"
    /\ handle["owner"] # Null

\* C10 (state part): at most one Resource is Alive at a time; a section
\* header is printed only when the resources of the scenarios before it are
\* Released; with the End of Program header printed all three are Released.
C10_Inv ==
    /\ Cardinality({n \in Names : state[n] = "Alive"}) <= 1
    /\ HeaderPrinted("Shared Ownership") => state["unique_resource"] = "Released"
    /\ HeaderPrinted("Observer Ownership") => state["shared_resource"] = "Released"
    /\ HeaderPrinted("End of Program") => \A n \in Names : state[n] = "Released"

\* C10: every run reaches the End of Program header, and no Resource
\* outlives its scenario.
C10_NoResourceOutlivesScenario == []C10_Inv /\ <>HeaderPrinted("End of Program")

C10_Witness ==
    /\ pc = "m98"
    /\ HeaderPrinted("End of Program")
    /\ \A n \in Names : state[n] = "Released"

(***************************************************************************)
(* Properties of Data::compute and Data::computeNonConst (SpecCompute).    *)
(***************************************************************************)
\* C7: compute and computeNonConst have the same loop bound and, taken the
\* same number of steps, the same loop variable, the same accumulator, the
\* same overflow history and the same returned value.
C7_SameComputation ==
    /\ ComputeBound = ComputeNonConstBound
    /\ StepsConst = StepsNonConst =>
          /\ pcConst = pcNonConst
          /\ iConst = iNonConst
          /\ sumConst = sumNonConst
          /\ ovConst = ovNonConst
          /\ retConst = retNonConst

C7_Witness ==
    /\ StepsConst = StepsNonConst
    /\ iConst = 65537 /\ iNonConst = 65537
    /\ ovConst /\ ovNonConst
    /\ sumConst = sumNonConst
    /\ sumConst < 0

\* a value of an int in base 10^6: << the millions, the rest >>
Wide(x) == << x \div 1000000, x % 1000000 >>

\* C8: in both functions the accumulator never leaves the range of a 32-bit
\* int and the value returned is 499999500000, which is 499999 * 10^6 + 500000.
C8_SumIsExact ==
    /\ ~ovConst /\ ~ovNonConst
    /\ pcConst = "done" => Wide(retConst) = <<499999, 500000>>
    /\ pcNonConst = "done" => Wide(retNonConst) = <<499999, 500000>>

\* what the functions return with the addition wrapping: 499999500000 - 116 * 2^32
WrappedSum ==
    /\ pcConst = "done" => ovConst /\ retConst = 1783293664
    /\ pcNonConst = "done" => ovNonConst /\ retNonConst = 1783293664

(***************************************************************************)
(* Properties of the Benchmark Program (SpecBench).                        *)
(***************************************************************************)
\* C9 (state part): the invocations made so far are compute() up to 100
\* times and only then computeNonConst() up to 100 times; compute() runs only
\* between the first two clock readings and computeNonConst() only between
\* the last two; nothing is printed before all four readings are taken; the
\* lines printed are the const duration and then the non-const duration, and
\* the finished run has printed both.
C9_Inv ==
    /\ Len(calls) <= 200
    /\ \A j \in 1..Len(calls) :
          calls[j] = (IF j <= 100 THEN "compute" ELSE "computeNonConst")
    /\ Len(calls) >= 1 => StartConstRead
    /\ EndConstRead => Len(calls) >= 100
    /\ Len(calls) > 100 => StartNonConstRead
    /\ EndNonConstRead => Len(calls) = 200
    /\ bout # <<>> => EndNonConstRead
    /\ Len(clock) <= 4
    /\ IsPrefix([j \in 1..Len(bout) |-> bout[j].label],
                <<"Const method duration", "Non-const method duration">>)
    /\ Len(bout) >= 1 => bout[1].ticks = clock[2] - clock[1]
    /\ Len(bout) >= 2 => bout[2].ticks = clock[4] - clock[3]
    /\ bpc = "done" => Len(bout) = 2 /\ Len(calls) = 200

\* C9: the Benchmark Program always runs to completion, with 100 timed
\* compute() calls, then 100 timed computeNonConst() calls, then two lines.
C9_BenchmarkRuns == []C9_Inv /\ <>(bpc = "done")

C9_Witness ==
    /\ bpc = "done"
    /\ Len(calls) = 200
    /\ calls[100] = "compute" /\ calls[101] = "computeNonConst"
    /\ Len(bout) = 2

====
